---- MODULE Spec2Model ----
(***************************************************************************)
(* The board store of EisenhowerMatrix.tsx: the React state (board,        *)
(* hydrated, showResetModal), the two effects (hydration, save), the       *)
(* mutation functions and the handlers that call them, and the durable     *)
(* value under STORAGE_KEY in localStorage.                                *)
(*                                                                         *)
(* A JS string is the sequence of its characters; the JS value undefined   *)
(* is the one-element sequence holding the token "undefined", which is no  *)
(* character.  A Task is a function from the keys it owns to their values: *)
(* a key holding undefined is still a key of the object.                   *)
(***************************************************************************)
EXTENDS Integers, Sequences, FiniteSets, TLC

\* ------------------------------------------------------------------ bounds
\* The most tasks on the board (the add handler is capped there).
MaxTasks == 2
\* Date.now() ranges over 0..MaxNow.
MaxNow == 1

\* ------------------------------------------------------------------ values
QuadrantKey == {"do", "schedule", "delegate", "eliminate"}

Undefined == <<"undefined">>

\* What Math.random().toString(16).slice(2) can return.
RandVals == {"r1", "r2"}

\* What the user can have put in a form (the add box of a quadrant, the edit
\* box of a task) when it is submitted: the title input, the notes textarea,
\* the date input and, in the add box, the "Add notes" checkbox.
Forms ==
    {[title |-> <<>>, notes |-> <<>>, dueDate |-> <<>>, showNotes |-> FALSE],
     [title |-> <<" ">>, notes |-> <<"n", " ">>, dueDate |-> <<"2025-01-01">>,
      showNotes |-> TRUE],
     [title |-> <<" ", "a", " ">>, notes |-> <<" ", "n", " ">>,
      dueDate |-> <<"2025-01-01">>, showNotes |-> TRUE],
     [title |-> <<"b">>, notes |-> <<" ">>, dueDate |-> <<>>,
      showNotes |-> TRUE],
     [title |-> <<"b">>, notes |-> <<>>, dueDate |-> <<>>,
      showNotes |-> FALSE]}

OptionalKeys == {"notes", "dueDate"}

\* String.prototype.trim
RECURSIVE TrimStart(_)
TrimStart(s) ==
    IF s # <<>> /\ Head(s) = " " THEN TrimStart(Tail(s)) ELSE s

RECURSIVE TrimEnd(_)
TrimEnd(s) ==
    IF s # <<>> /\ s[Len(s)] = " " THEN TrimEnd(SubSeq(s, 1, Len(s) - 1)) ELSE s

Trim(s) == TrimEnd(TrimStart(s))

\* x || undefined, for x a string or undefined
OrUndefined(x) == IF x = Undefined \/ x = <<>> THEN Undefined ELSE x

\* The id is the random part, "-", and the time, both in hexadecimal: the
\* "-" keeps the two apart, so the string is the pair.
uid(rnd, t) == <<rnd, t>>

emptyBoard == [q \in QuadrantKey |-> <<>>]

\* ------------------------------------------------------------ persistence
\* getItem's null
Absent == [kind |-> "null"]
\* A stored text that JSON.parse rejects.
Garbage == [kind |-> "text"]
\* A stored text that JSON.parse accepts, as the value it denotes.
Json(v) == [kind |-> "json", value |-> v]
\* Valid JSON that lacks quadrant keys.
MissingKey == Json([do |-> <<>>, schedule |-> <<>>])

\* JSON.stringify leaves out the keys that hold undefined.
StringifyTask(t) ==
    [k \in {j \in DOMAIN t : ~(j \in OptionalKeys /\ t[j] = Undefined)} |-> t[k]]

Stringify(state) ==
    Json([q \in QuadrantKey |->
            [i \in 1..Len(state[q]) |-> StringifyTask(state[q][i])]])

\* What an earlier session left under the key: one task in "schedule",
\* created before this session began (time -1).
Snapshot ==
    Stringify([emptyBoard EXCEPT !["schedule"] =
        <<[id |-> uid("r1", -1), title |-> <<"b">>, notes |-> Undefined,
           dueDate |-> Undefined, done |-> FALSE, createdAt |-> -1]>>])

Null == [kind |-> "null"]

\* A JSON value that is no array, where a Task[] is expected: the tuple of
\* one record holding its text (a Task has no key "json").
NonArray(text) == <<[json |-> text]>>

IsArray(v) == \A i \in 1..Len(v) : "json" \notin DOMAIN v[i]

\* The values that are false in a condition, and some that are true.
FalsyVals == {NonArray("null"), NonArray("0"), NonArray("false")}
TruthyVals == {NonArray("1"), NonArray("{}")}

\* A shape check that also rejects an empty array.
FalsyOrEmpty(parsed, k) ==
    k \notin DOMAIN parsed \/ parsed[k] \in FalsyVals \/ parsed[k] = <<>>

\* A shape check that looks at the first key only.
FalsyDoOnly(parsed, k) ==
    "do" \notin DOMAIN parsed \/ parsed["do"] \in FalsyVals

\* !parsed[k]: the key is missing or holds null, 0 or false (an array, even
\* empty, is truthy)
Falsy(parsed, k) == k \notin DOMAIN parsed \/ parsed[k] \in FalsyVals

\* getItem's "": a key set to the empty text
EmptyText == [kind |-> "empty"]
\* The text null, which JSON.parse accepts: parsed.do then throws.
JsonNull == Json(Null)
\* The text 7: a number has no property do.
JsonNumber == Json([number |-> 7])

loadState(raw) ==
    IF raw = Absent \/ raw = EmptyText THEN Null
    ELSE IF raw.kind # "json" THEN Null
    ELSE IF raw.value = Null THEN Null
    ELSE IF \E k \in QuadrantKey : Falsy(raw.value, k) THEN Null
    ELSE raw.value

\* A saveState that keeps the stored tasks the board does not hold.
saveStateMerge(raw, state, ok) ==
    IF ~ok THEN raw
    ELSE IF loadState(raw) = Null THEN Stringify(state)
    ELSE LET old == loadState(raw)
             Extra(q) ==
                 LET Keep(t) == t.id \notin {state[q][i].id :
                                                i \in 1..Len(state[q])}
                 IN  SelectSeq(old[q], Keep)
         IN  Stringify([q \in QuadrantKey |-> state[q] \o Extra(q)])

\* A saveState that writes no board without tasks.
saveStateNonEmpty(raw, state, ok) ==
    IF ok /\ \E q \in QuadrantKey : state[q] # <<>>
    THEN Stringify(state) ELSE raw

\* The durable value after saveState(state), ok telling whether setItem
\* returned or threw (the catch ignores it).
saveState(raw, state, ok) == IF ok THEN Stringify(state) ELSE raw

\* ---------------------------------------------------------------- helpers
Ids(seq) == {seq[i].id : i \in 1..Len(seq)}

AllTasks(b) == UNION {{<<q, i>> : i \in 1..Len(b[q])} : q \in QuadrantKey}

Count(b) == Cardinality(AllTasks(b))

\* useMemo(() => ..., [board]): the header's counts (t.done of an object
\* without that key is undefined, which filter takes as false)
totals(b) ==
    [all |-> Cardinality(AllTasks(b)),
     done |-> Cardinality({p \in AllTasks(b) :
                             /\ "done" \in DOMAIN b[p[1]][p[2]]
                             /\ b[p[1]][p[2]].done})]

\* { ...t, ...patch }
Merge(t, patch) ==
    [k \in DOMAIN t \cup DOMAIN patch |->
        IF k \in DOMAIN patch THEN patch[k] ELSE t[k]]

\* seq.filter(t => t.id !== taskId)
WithoutId(seq, taskId) ==
    LET Keep(t) == t.id # taskId IN SelectSeq(seq, Keep)

\* seq.filter(t => !t.done)
NotDone(seq) ==
    LET Keep(t) == ~t.done IN SelectSeq(seq, Keep)

\* seq.find(t => t.id === taskId), for a seq that has one
Find(seq, taskId) ==
    LET i == CHOOSE j \in 1..Len(seq) :
                 /\ seq[j].id = taskId
                 /\ \A k \in 1..(j - 1) : seq[k].id # taskId
    IN  seq[i]

\* --------------------------------------------------------------- mutations
\* Each mutation gives the next board, and whether React got a new state
\* object (a new object re-renders and re-runs the save effect; the same
\* object, or no setBoard at all, does neither).
Same(prev) == [b |-> prev, changed |-> FALSE]
New(next) == [b |-> next, changed |-> TRUE]

\* addTask storing the title as typed.
addTaskNoTrim(prev, q, title, notes, dueDate, rnd, t) ==
    LET task == [id |-> uid(rnd, t), title |-> title,
                 notes |-> IF notes = Undefined THEN Undefined
                           ELSE OrUndefined(Trim(notes)),
                 dueDate |-> OrUndefined(dueDate), done |-> FALSE,
                 createdAt |-> t]
    IN  IF Trim(title) = <<>> THEN Same(prev)
        ELSE New([prev EXCEPT ![q] = <<task>> \o prev[q]])

\* addTask without its return on a blank title.
addTaskNoBlankCheck(prev, q, title, notes, dueDate, rnd, t) ==
    LET task == [id |-> uid(rnd, t), title |-> Trim(title),
                 notes |-> IF notes = Undefined THEN Undefined
                           ELSE OrUndefined(Trim(notes)),
                 dueDate |-> OrUndefined(dueDate), done |-> FALSE,
                 createdAt |-> t]
    IN  New([prev EXCEPT ![q] = <<task>> \o prev[q]])

addTask(prev, q, title, notes, dueDate, rnd, t) ==
    LET clean == Trim(title)
        task == [id |-> uid(rnd, t),
                 title |-> clean,
                 notes |-> IF notes = Undefined THEN Undefined
                           ELSE OrUndefined(Trim(notes)),
                 dueDate |-> OrUndefined(dueDate),
                 done |-> FALSE,
                 createdAt |-> t]
    IN  IF clean = <<>> THEN Same(prev)
        ELSE New([prev EXCEPT ![q] = <<task>> \o prev[q]])

\* updateTask putting the edited task first in its quadrant.
updateTaskToFront(prev, q, taskId, patch) ==
    LET Edited(t) == t.id = taskId
        Rest(t) == t.id # taskId
        merged == [i \in 1..Len(prev[q]) |->
                     IF prev[q][i].id = taskId THEN Merge(prev[q][i], patch)
                     ELSE prev[q][i]]
    IN  New([prev EXCEPT ![q] =
                SelectSeq(merged, Edited) \o SelectSeq(merged, Rest)])

\* updateTask storing the patch in place of the task.
updateTaskReplace(prev, q, taskId, patch) ==
    New([prev EXCEPT ![q] =
            [i \in 1..Len(prev[q]) |->
                IF prev[q][i].id = taskId THEN patch ELSE prev[q][i]]])

updateTask(prev, q, taskId, patch) ==
    New([prev EXCEPT ![q] =
            [i \in 1..Len(prev[q]) |->
                IF prev[q][i].id = taskId THEN Merge(prev[q][i], patch)
                ELSE prev[q][i]]])

\* deleteTask dropping the task from every quadrant.
deleteTaskEverywhere(prev, q, taskId) ==
    New([r \in QuadrantKey |-> WithoutId(prev[r], taskId)])

deleteTask(prev, q, taskId) ==
    New([prev EXCEPT ![q] = WithoutId(prev[q], taskId)])

\* clearCompleted dropping the done tasks of every quadrant.
clearCompletedEverywhere(prev, q) ==
    New([r \in QuadrantKey |-> NotDone(prev[r])])

clearCompleted(prev, q) ==
    New([prev EXCEPT ![q] = NotDone(prev[q])])

\* moveTask appending the task to its destination.
moveTaskAppend(prev, from, to, taskId) ==
    IF from = to THEN Same(prev)
    ELSE IF taskId \notin Ids(prev[from]) THEN Same(prev)
    ELSE New([prev EXCEPT ![from] = WithoutId(prev[from], taskId),
                          ![to] = prev[to] \o <<Find(prev[from], taskId)>>])

\* moveTask without its return on from === to: the later key [to] of the
\* object literal wins.
moveTaskNoSameCheck(prev, from, to, taskId) ==
    IF taskId \notin Ids(prev[from]) THEN Same(prev)
    ELSE New([q \in QuadrantKey |->
                IF q = to THEN <<Find(prev[from], taskId)>> \o prev[to]
                ELSE IF q = from THEN WithoutId(prev[from], taskId)
                ELSE prev[q]])

moveTask(prev, from, to, taskId) ==
    IF from = to THEN Same(prev)
    ELSE IF taskId \notin Ids(prev[from]) THEN Same(prev)
    ELSE New([prev EXCEPT ![from] = WithoutId(prev[from], taskId),
                          ![to] = <<Find(prev[from], taskId)>> \o prev[to]])

\* ------------------------------------------------------------------- state
VARIABLES
    board,          \* useState: the board of the last commit
    hydrated,       \* useState: the load attempt has completed
    showResetModal, \* useState: the reset dialog is open
    queued,         \* the state updates the hydration effect has queued
    effects,        \* the effects of the last commit still to run, in order
    totalsMemo,     \* useMemo: the totals the last render showed
    storage,        \* localStorage's value under STORAGE_KEY
    storageThrows,  \* setItem and removeItem throw (quota, storage disabled)
    now,            \* the last Date.now() that was read
    otherTab,       \* a second instance of the component on the same key
    ended,          \* the board the session before this one ended with
    updaters,       \* the updaters given to setBoard that no render applied
    last            \* the last handler or effect that ran: what it called

vars == <<board, hydrated, showResetModal, queued, effects, totalsMemo,
          storage, storageThrows, now, otherTab, ended, updaters,
          last>>

NoUpdates == [board |-> Null, hydrated |-> FALSE]

\* No second instance is open.
NoTab ==
    [board |-> emptyBoard, hydrated |-> FALSE, queued |-> NoUpdates,
     effects |-> <<>>]

\* Nothing is queued and no effect is pending: the next event is handled.
AtRest == effects = <<>> /\ queued = NoUpdates

\* The dialog's backdrop covers the page: the board behind it gets no event.
Idle == AtRest /\ ~showResetModal

Init ==
    /\ board = emptyBoard
    /\ hydrated = FALSE
    /\ showResetModal = FALSE
    /\ totalsMemo = totals(board)
    /\ queued = NoUpdates
    /\ effects = <<"hydrate", "save">>
    /\ storage \in {Absent, Garbage, MissingKey, Snapshot}
    /\ storageThrows = FALSE
    /\ now = 0
    /\ otherTab = NoTab
    /\ ended = Null
    /\ updaters = <<>>
    /\ last = [op |-> "mount"]

\* A save effect that does not depend on the board: no commit re-runs it.
CommitNoEffect(r, call) ==
    /\ board' = r.b
    /\ totalsMemo' = IF r.changed THEN totals(r.b) ELSE totalsMemo
    /\ effects' = <<>>
    /\ last' = call

\* A totals memo with an empty dependency list: computed at the mount only.
CommitStaleTotals(r, call) ==
    /\ board' = r.b
    /\ totalsMemo' = totalsMemo
    /\ effects' = IF r.changed THEN <<"save">> ELSE <<>>
    /\ last' = call

\* The commit of a handler's setBoard (React renders before the next event):
\* a new board object re-runs the memo that depends on [board] and the
\* effect that depends on [board, hydrated].
Commit(r, call) ==
    /\ board' = r.b
    /\ totalsMemo' = IF r.changed THEN totals(r.b) ELSE totalsMemo
    /\ effects' = IF r.changed THEN <<"save">> ELSE <<>>
    /\ last' = call

\* useEffect(() => {...}, []): load, then queue setBoard and setHydrated
HydrateEffect ==
    /\ effects # <<>> /\ Head(effects) = "hydrate"
    /\ queued' = [board |-> loadState(storage), hydrated |-> TRUE]
    /\ effects' = Tail(effects)
    /\ last' = [op |-> "hydrate"]
    /\ UNCHANGED <<board, hydrated, showResetModal, totalsMemo, storage,
                   storageThrows, now, otherTab, ended, updaters>>

\* A save effect that does not wait for the load.
SaveGuardAlways(h) == TRUE

\* if (!hydrated) return
SaveGuard(h) == h

\* A save effect whose saveState has no try/catch: the error of setItem
\* leaves the effect, and the component is gone.
SaveEffectUncaught ==
    /\ effects # <<>> /\ Head(effects) = "save"
    /\ effects' = IF SaveGuard(hydrated) /\ storageThrows THEN <<"throw">>
                  ELSE Tail(effects)
    /\ IF ~SaveGuard(hydrated)
       THEN /\ last' = [op |-> "save:skipped"]
            /\ UNCHANGED storage
       ELSE /\ storage' = saveState(storage, board, ~storageThrows)
            /\ last' = IF last.op = "confirmReset" THEN [op |-> "save:reset"]
                       ELSE [op |-> "save"]
    /\ UNCHANGED <<board, hydrated, showResetModal, queued, totalsMemo,
                   storageThrows, now, otherTab, ended, updaters>>

\* useEffect(() => {...}, [board, hydrated]), with the board and the flag of
\* the commit that scheduled it
SaveEffect ==
    /\ effects # <<>> /\ Head(effects) = "save"
    /\ effects' = Tail(effects)
    /\ IF ~SaveGuard(hydrated)
       THEN /\ last' = [op |-> "save:skipped"]
            /\ UNCHANGED storage
       ELSE /\ storage' = saveState(storage, board, ~storageThrows)
            /\ last' = IF last.op = "confirmReset" THEN [op |-> "save:reset"]
                       ELSE [op |-> "save"]
    /\ UNCHANGED <<board, hydrated, showResetModal, queued, totalsMemo,
                   storageThrows, now, otherTab, ended, updaters>>

\* QuadrantCard calls tasks.filter(...) while rendering: a quadrant that
\* is no array makes the render throw.
Renders(b) == \A q \in QuadrantKey : IsArray(b[q])

\* A hydration effect that forgets setBoard(loaded).
RenderNoBoard ==
    /\ effects = <<>> /\ queued # NoUpdates
    /\ board' = board
    /\ hydrated' = queued.hydrated
    /\ queued' = NoUpdates
    /\ totalsMemo' = totalsMemo
    /\ effects' = <<"save">>
    /\ last' = [op |-> "render"]
    /\ UNCHANGED <<showResetModal, storage, storageThrows, now, otherTab,
                   ended, updaters>>

\* The re-render of the updates the hydration effect queued.  A render that
\* throws commits nothing and runs no effect: the component is gone.
Render ==
    /\ effects = <<>> /\ queued # NoUpdates
    /\ board' = IF queued.board # Null THEN queued.board ELSE board
    /\ hydrated' = queued.hydrated
    /\ queued' = NoUpdates
    /\ totalsMemo' = IF queued.board # Null /\ Renders(board')
                     THEN totals(board') ELSE totalsMemo
    /\ effects' = IF Renders(board') THEN <<"save">> ELSE <<"throw">>
    /\ last' = [op |-> "render"]
    /\ UNCHANGED <<showResetModal, storage, storageThrows, now, otherTab,
                   ended, updaters>>

Blank(title) == Trim(title) = <<>>

\* QuadrantCard.submit: onAdd(q, title, showNotes ? notes : undefined,
\* dueDate || undefined), at time t with Math.random() giving rnd
Submit(q, form, rnd, t) ==
    /\ Idle
    /\ Count(board) < MaxTasks
    /\ LET notes == IF form.showNotes THEN form.notes ELSE Undefined
           dueDate == OrUndefined(form.dueDate)
       IN  Commit(addTask(board, q, form.title, notes, dueDate, rnd, t),
                  IF Blank(form.title) THEN [op |-> "addTask:blank"]
                  ELSE [op |-> "addTask", q |-> q, title |-> form.title,
                        notes |-> notes, dueDate |-> dueDate])
    /\ now' = IF Blank(form.title) THEN now ELSE t
    /\ UNCHANGED <<hydrated, showResetModal, queued, storage, storageThrows,
                   otherTab, ended, updaters>>

\* TaskRow.saveEdit, for the i-th task of quadrant q
SaveEdit(q, i, form) ==
    /\ Idle
    /\ i \in 1..Len(board[q])
    /\ LET clean == Trim(form.title)
           patch == [title |-> clean,
                     notes |-> OrUndefined(Trim(form.notes)),
                     dueDate |-> OrUndefined(form.dueDate)]
       IN  IF clean = <<>>
           THEN Commit(Same(board), [op |-> "saveEdit:blank"])
           ELSE Commit(updateTask(board, q, board[q][i].id, patch),
                       [op |-> "updateTask", q |-> q,
                        taskId |-> board[q][i].id, patch |-> patch])
    /\ UNCHANGED <<hydrated, showResetModal, queued, storage, storageThrows,
                   now, otherTab, ended, updaters>>

\* The checkbox of a TaskRow: onUpdate(q, t.id, { done: e.target.checked })
ToggleDone(q, i) ==
    /\ Idle
    /\ i \in 1..Len(board[q])
    /\ LET patch == [done |-> ~board[q][i].done]
       IN  Commit(updateTask(board, q, board[q][i].id, patch),
                  [op |-> "updateTask", q |-> q, taskId |-> board[q][i].id,
                   patch |-> patch])
    /\ UNCHANGED <<hydrated, showResetModal, queued, storage, storageThrows,
                   now, otherTab, ended, updaters>>

\* The Delete button of a TaskRow
Delete(q, i) ==
    /\ Idle
    /\ i \in 1..Len(board[q])
    /\ Commit(deleteTask(board, q, board[q][i].id),
              [op |-> "deleteTask", q |-> q, taskId |-> board[q][i].id])
    /\ UNCHANGED <<hydrated, showResetModal, queued, storage, storageThrows,
                   now, otherTab, ended, updaters>>

\* The "Clear done" button, disabled while the quadrant has no done task
ClearDone(q) ==
    /\ Idle
    /\ \E i \in 1..Len(board[q]) : board[q][i].done
    /\ Commit(clearCompleted(board, q), [op |-> "clearCompleted", q |-> q])
    /\ UNCHANGED <<hydrated, showResetModal, queued, storage, storageThrows,
                   now, otherTab, ended, updaters>>

\* What a handler called moveTask with: a call within one quadrant, a call
\* for a task that is not in the source, or a call for one that is.
MoveCall(from, to, taskId) ==
    IF from = to THEN [op |-> "moveTask:same"]
    ELSE IF taskId \notin Ids(board[from]) THEN [op |-> "moveTask:missing"]
    ELSE [op |-> "moveTask", from |-> from, to |-> to, taskId |-> taskId]

\* The Move select of a TaskRow: onMove(q, e.target.value, t.id)
SelectMove(q, i, to) ==
    /\ Idle
    /\ i \in 1..Len(board[q])
    /\ to # q
    /\ Commit(moveTask(board, q, to, board[q][i].id),
              MoveCall(q, to, board[q][i].id))
    /\ UNCHANGED <<hydrated, showResetModal, queued, storage, storageThrows,
                   now, otherTab, ended, updaters>>

\* QuadrantCard.onDrop on quadrant q: the payload is what some onDragStart
\* wrote, in this window or another, now or earlier
Drop(q, from, taskId) ==
    /\ Idle
    /\ Commit(moveTask(board, from, q, taskId), MoveCall(from, q, taskId))
    /\ UNCHANGED <<hydrated, showResetModal, queued, storage, storageThrows,
                   now, otherTab, ended, updaters>>

\* The Reset button
OpenReset ==
    /\ Idle
    /\ showResetModal' = TRUE
    /\ last' = [op |-> "openReset"]
    /\ UNCHANGED <<board, hydrated, queued, effects, totalsMemo, storage,
                   storageThrows, now, otherTab, ended, updaters>>

\* The Cancel button and the backdrop of the dialog
CancelReset ==
    /\ AtRest
    /\ showResetModal
    /\ showResetModal' = FALSE
    /\ last' = [op |-> "cancelReset"]
    /\ UNCHANGED <<board, hydrated, queued, effects, totalsMemo, storage,
                   storageThrows, now, otherTab, ended, updaters>>

\* localStorage.removeItem(STORAGE_KEY) in its try/catch, ok telling
\* whether it returned or threw
removeItem(raw, ok) == IF ok THEN Absent ELSE raw

\* A reset that empties the first quadrant only.
confirmResetFirstOnly ==
    /\ AtRest
    /\ showResetModal
    /\ Commit(New([board EXCEPT !["do"] = <<>>]), [op |-> "confirmReset"])
    /\ storage' = removeItem(storage, ~storageThrows)
    /\ showResetModal' = FALSE
    /\ UNCHANGED <<hydrated, queued, storageThrows, now, otherTab, ended,
                   updaters>>

\* The "Yes, Reset All" button
confirmReset ==
    /\ AtRest
    /\ showResetModal
    /\ Commit(New(emptyBoard), [op |-> "confirmReset"])
    /\ storage' = removeItem(storage, ~storageThrows)
    /\ showResetModal' = FALSE
    /\ UNCHANGED <<hydrated, queued, storageThrows, now, otherTab, ended,
                   updaters>>

\* The ids a drag payload can carry: those of the tasks on the board and, of
\* a task no longer (or never) on this board, one from an earlier session.
DragIds == UNION {Ids(board[q]) : q \in QuadrantKey} \cup {uid("r2", -1)}

Next ==
    \/ HydrateEffect
    \/ SaveEffect
    \/ Render
    \/ \E q \in QuadrantKey, form \in Forms, rnd \in RandVals,
          t \in now..MaxNow :
          Submit(q, form, rnd, t)
    \/ \E q \in QuadrantKey, i \in 1..MaxTasks, form \in Forms :
          SaveEdit(q, i, form)
    \/ \E q \in QuadrantKey, i \in 1..MaxTasks : ToggleDone(q, i)
    \/ \E q \in QuadrantKey, i \in 1..MaxTasks : Delete(q, i)
    \/ \E q \in QuadrantKey : ClearDone(q)
    \/ \E q \in QuadrantKey, i \in 1..MaxTasks, to \in QuadrantKey :
          SelectMove(q, i, to)
    \/ \E q \in QuadrantKey, from \in QuadrantKey, taskId \in DragIds :
          Drop(q, from, taskId)
    \/ OpenReset
    \/ CancelReset
    \/ confirmReset

Spec == Init /\ [][Next]_vars

\* ------------------------------------------- a session over a stored board
\* The most tasks a quadrant of the stored board holds.
MaxStored == 3

\* What an earlier session left under the key: three tasks in "do", the
\* second one done, the third with notes and a due date.
Stored ==
    Stringify([emptyBoard EXCEPT !["do"] =
        <<[id |-> uid("r1", -3), title |-> <<"a">>, notes |-> Undefined,
           dueDate |-> Undefined, done |-> FALSE, createdAt |-> -3],
          [id |-> uid("r1", -2), title |-> <<"b">>, notes |-> Undefined,
           dueDate |-> Undefined, done |-> TRUE, createdAt |-> -2],
          [id |-> uid("r1", -1), title |-> <<"c">>, notes |-> <<"n">>,
           dueDate |-> <<"2025-01-01">>, done |-> FALSE,
           createdAt |-> -1]>>])

\* The mount of a session whose storage holds Stored.
InitStored ==
    /\ board = emptyBoard
    /\ hydrated = FALSE
    /\ showResetModal = FALSE
    /\ totalsMemo = totals(board)
    /\ queued = NoUpdates
    /\ effects = <<"hydrate", "save">>
    /\ storage = Stored
    /\ storageThrows = FALSE
    /\ now = 0
    /\ otherTab = NoTab
    /\ ended = Null
    /\ updaters = <<>>
    /\ last = [op |-> "mount"]

\* The forms submitted in that session: a blank one and a plain one.
FormsStored == {f \in Forms : ~f.showNotes}

NextStored ==
    \/ HydrateEffect
    \/ SaveEffect
    \/ Render
    \/ \E q \in QuadrantKey, form \in FormsStored :
          Submit(q, form, "r1", now)
    \/ \E q \in QuadrantKey, i \in 1..MaxStored, form \in FormsStored :
          SaveEdit(q, i, form)
    \/ \E q \in QuadrantKey, i \in 1..MaxStored : ToggleDone(q, i)
    \/ \E q \in QuadrantKey, i \in 1..MaxStored : Delete(q, i)
    \/ \E q \in QuadrantKey : ClearDone(q)
    \/ \E q \in QuadrantKey, i \in 1..MaxStored, to \in QuadrantKey :
          SelectMove(q, i, to)
    \/ \E q \in QuadrantKey, from \in QuadrantKey, taskId \in DragIds :
          Drop(q, from, taskId)
    \/ OpenReset
    \/ CancelReset
    \/ confirmReset

SpecStored == InitStored /\ [][NextStored]_vars

\* --------------------------------------------------- save, then load
\* The tasks of the valid boards: notes and dueDate each set, holding
\* undefined (as addTask leaves them) or not a key (as JSON.parse does).
TaskVals(rnd) ==
    LET base == {[id |-> uid(rnd, 0), title |-> <<"a">>, done |-> d,
                  createdAt |-> 0] : d \in BOOLEAN}
        notes == {<<>>, Undefined, <<"n">>}
        dates == {<<>>, Undefined, <<"2025-01-01">>}
        With(t, k, v) ==
            IF v = <<>> THEN t
            ELSE [j \in DOMAIN t \cup {k} |-> IF j = k THEN v ELSE t[j]]
    IN  {With(With(t, "notes", n), "dueDate", d) :
            t \in base, n \in notes, d \in dates}

\* Valid boards: empty, one task, or two tasks in one quadrant or in two.
ValidBoards ==
    {emptyBoard}
    \cup {[emptyBoard EXCEPT ![q] = <<t>>] :
            q \in QuadrantKey, t \in TaskVals("r1")}
    \cup {[[emptyBoard EXCEPT ![q] = <<t>>] EXCEPT ![r] = <<u>> \o @] :
            q \in QuadrantKey, r \in {"do", "schedule"},
            t \in TaskVals("r1"), u \in TaskVals("r2")}

\* A board in memory whose save effect is due, the load of the next mount
\* after it.
InitRoundTrip ==
    /\ board \in ValidBoards
    /\ hydrated = TRUE
    /\ showResetModal = FALSE
    /\ totalsMemo = totals(board)
    /\ queued = NoUpdates
    /\ effects = <<"save", "hydrate">>
    /\ storage = Absent
    /\ storageThrows = FALSE
    /\ now = 0
    /\ otherTab = NoTab
    /\ ended = Null
    /\ updaters = <<>>
    /\ last = [op |-> "render"]

NextRoundTrip ==
    \/ SaveEffect
    \/ HydrateEffect

SpecRoundTrip == InitRoundTrip /\ [][NextRoundTrip]_vars

\* ------------------------------------------------------------- startup
\* Values under the key that loadState rejects: no value, the empty text,
\* text that is no JSON, the JSON null, a JSON number, a board without one
\* of its keys, a board with null, 0 or false under one of its keys.
Corrupt ==
    {Absent, EmptyText, Garbage, JsonNull, JsonNumber}
    \cup {Json([q \in QuadrantKey \ {k} |-> b[q]]) :
            k \in QuadrantKey, b \in {emptyBoard, Snapshot.value}}
    \cup {Json([Snapshot.value EXCEPT ![k] = v]) :
            k \in QuadrantKey, v \in FalsyVals}

\* Values that hold the four keys, one of them no array.
Misshapen ==
    {Json([Snapshot.value EXCEPT ![k] = v]) :
        k \in QuadrantKey, v \in TruthyVals}

\* Boards an earlier session saved.
Saved ==
    {Snapshot, Stored}
    \cup {Stringify(b) : b \in {c \in ValidBoards : Count(c) <= 1}}

StoredValues == Corrupt \cup Misshapen \cup Saved

InitLoad ==
    /\ board = emptyBoard
    /\ hydrated = FALSE
    /\ showResetModal = FALSE
    /\ totalsMemo = totals(board)
    /\ queued = NoUpdates
    /\ effects = <<"hydrate", "save">>
    /\ storage \in StoredValues
    /\ storageThrows = FALSE
    /\ now = 0
    /\ otherTab = NoTab
    /\ ended = Null
    /\ updaters = <<>>
    /\ last = [op |-> "mount"]

\* The steps from the mount to the first event.
NextLoad ==
    \/ HydrateEffect
    \/ SaveEffect
    \/ Render

SpecLoad == InitLoad /\ [][NextLoad]_vars

\* ------------------------------------------------- deleteTask, any call
\* The boards deleteTask is called on: two tasks, in one quadrant or two,
\* or the three tasks of Stored.
BoardsToDelete ==
    {b \in ValidBoards : Count(b) = 2} \cup {Stored.value}

\* The session at rest on one of these boards.
InitDelete ==
    /\ board \in BoardsToDelete
    /\ hydrated = TRUE
    /\ showResetModal = FALSE
    /\ totalsMemo = totals(board)
    /\ queued = NoUpdates
    /\ effects = <<>>
    /\ storage = Stringify(board)
    /\ storageThrows = FALSE
    /\ now = 0
    /\ otherTab = NoTab
    /\ ended = Null
    /\ updaters = <<>>
    /\ last = [op |-> "save"]

\* onDelete(q, taskId), whatever the quadrant and the id
deleteTaskCall(q, taskId) ==
    /\ Idle
    /\ Commit(deleteTask(board, q, taskId),
              [op |-> "deleteTask", q |-> q, taskId |-> taskId])
    /\ UNCHANGED <<hydrated, showResetModal, queued, storage, storageThrows,
                   now, otherTab, ended, updaters>>

NextDelete ==
    \/ SaveEffect
    \/ \E q \in QuadrantKey,
          taskId \in {uid("r1", 0), uid("r2", 0), uid("r1", -2),
                      uid("r2", -1)} :
          deleteTaskCall(q, taskId)

SpecDelete == InitDelete /\ [][NextDelete]_vars

\* ------------------------------------------- a session whose writes fail
\* The mount of a session in which setItem and removeItem throw (the quota
\* is used up, or storage is disabled for writing).
InitFail ==
    /\ board = emptyBoard
    /\ hydrated = FALSE
    /\ showResetModal = FALSE
    /\ totalsMemo = totals(board)
    /\ queued = NoUpdates
    /\ effects = <<"hydrate", "save">>
    /\ storage \in {Absent, Garbage, MissingKey, Snapshot}
    /\ storageThrows = TRUE
    /\ now = 0
    /\ otherTab = NoTab
    /\ ended = Null
    /\ updaters = <<>>
    /\ last = [op |-> "mount"]

SpecFail == InitFail /\ [][Next]_vars

\* ------------------------------------------------------------- two tabs
\* A second instance of the component, in another tab on the same key: its
\* board, its hydrated flag, the updates its hydration effect queued and its
\* pending effects.  It runs the same effects and mutations; nothing in the
\* component listens to the other tab's writes.
TabMounted ==
    [board |-> emptyBoard, hydrated |-> FALSE, queued |-> NoUpdates,
     effects |-> <<"hydrate", "save">>]

TabAtRest == otherTab.effects = <<>> /\ otherTab.queued = NoUpdates

\* The steps of the other tab leave this one as it is.
ThisTabUnchanged ==
    UNCHANGED <<board, hydrated, showResetModal, queued, effects, totalsMemo,
                storageThrows, now, ended, updaters>>

OtherHydrateEffect ==
    /\ otherTab.effects # <<>> /\ Head(otherTab.effects) = "hydrate"
    /\ otherTab' = [otherTab EXCEPT
                      !.queued = [board |-> loadState(storage),
                                  hydrated |-> TRUE],
                      !.effects = Tail(@)]
    /\ last' = [op |-> "other:hydrate"]
    /\ UNCHANGED storage
    /\ ThisTabUnchanged

OtherSaveEffect ==
    /\ otherTab.effects # <<>> /\ Head(otherTab.effects) = "save"
    /\ otherTab' = [otherTab EXCEPT !.effects = Tail(@)]
    /\ IF ~SaveGuard(otherTab.hydrated)
       THEN /\ last' = [op |-> "other:save:skipped"]
            /\ UNCHANGED storage
       ELSE /\ storage' = saveState(storage, otherTab.board, ~storageThrows)
            /\ last' = [op |-> "other:save"]
    /\ ThisTabUnchanged

OtherRender ==
    /\ otherTab.effects = <<>> /\ otherTab.queued # NoUpdates
    /\ otherTab' = [board |-> IF otherTab.queued.board # Null
                              THEN otherTab.queued.board ELSE otherTab.board,
                    hydrated |-> otherTab.queued.hydrated,
                    queued |-> NoUpdates,
                    effects |-> <<"save">>]
    /\ last' = [op |-> "other:render"]
    /\ UNCHANGED storage
    /\ ThisTabUnchanged

\* The commit of a mutation in the other tab.
OtherCommit(r, call) ==
    /\ TabAtRest
    /\ otherTab' = [otherTab EXCEPT
                      !.board = r.b,
                      !.effects = IF r.changed THEN <<"save">> ELSE <<>>]
    /\ last' = call
    /\ UNCHANGED storage
    /\ ThisTabUnchanged

\* A submit of the title "b" in the other tab
OtherSubmit(q, rnd, t) ==
    /\ Count(otherTab.board) < MaxTasks
    /\ OtherCommit(addTask(otherTab.board, q, <<"b">>, Undefined, Undefined,
                           rnd, t),
                   [op |-> "other:addTask"])

\* The Delete button of a task in the other tab
OtherDelete(q, i) ==
    /\ i \in 1..Len(otherTab.board[q])
    /\ OtherCommit(deleteTask(otherTab.board, q, otherTab.board[q][i].id),
                   [op |-> "other:deleteTask"])

\* Both tabs have just been opened.
InitTabs ==
    /\ board = emptyBoard
    /\ hydrated = FALSE
    /\ showResetModal = FALSE
    /\ totalsMemo = totals(board)
    /\ queued = NoUpdates
    /\ effects = <<"hydrate", "save">>
    /\ storage \in {Absent, Snapshot}
    /\ storageThrows = FALSE
    /\ now = 0
    /\ otherTab = TabMounted
    /\ ended = Null
    /\ updaters = <<>>
    /\ last = [op |-> "mount"]

\* The quadrants and the form used in the two tabs.
TabQuadrants == {"do", "schedule"}

TabForm == CHOOSE f \in Forms : f.title = <<"b">> /\ ~f.showNotes

NextTabs ==
    \/ HydrateEffect
    \/ SaveEffect
    \/ Render
    \/ \E q \in TabQuadrants : Submit(q, TabForm, "r1", now)
    \/ \E q \in TabQuadrants, i \in 1..MaxTasks : Delete(q, i)
    \/ OtherHydrateEffect
    \/ OtherSaveEffect
    \/ OtherRender
    \/ \E q \in TabQuadrants : OtherSubmit(q, "r2", now)
    \/ \E q \in TabQuadrants, i \in 1..MaxTasks : OtherDelete(q, i)

SpecTabs == InitTabs /\ [][NextTabs]_vars

\* ------------------------------------------------------------ a restart
\* The page is closed with nothing pending and opened again: the component
\* mounts anew, with the initial values of its state and its two effects to
\* run, over the storage the session left.  ended records the board the
\* session was closed with; one restart is followed.
Restart ==
    /\ AtRest
    /\ hydrated
    /\ ended = Null
    /\ ended' = board
    /\ board' = emptyBoard
    /\ hydrated' = FALSE
    /\ showResetModal' = FALSE
    /\ totalsMemo' = totals(emptyBoard)
    /\ queued' = NoUpdates
    /\ effects' = <<"hydrate", "save">>
    /\ last' = [op |-> "restart"]
    /\ UNCHANGED <<storage, storageThrows, now, otherTab, updaters>>

\* The first session with all its events, the second one up to its first
\* event.
NextRestart ==
    \/ ended = Null /\ Next
    \/ ended # Null /\ (HydrateEffect \/ SaveEffect \/ Render)
    \/ Restart

SpecRestart == Init /\ [][NextRestart]_vars

\* -------------------------------------------- calls before the re-render
\* The most calls that wait for one render.
MaxBatch == 2

\* What a mutation's updater returns for the state it is given: the code of
\* the function, with the arguments of its call.
Apply(prev, call) ==
    CASE call.op = "addTask" ->
            addTask(prev, call.q, call.title, call.notes, call.dueDate,
                    call.rnd, call.t)
      [] call.op = "updateTask" ->
            updateTask(prev, call.q, call.taskId, call.patch)
      [] call.op = "deleteTask" -> deleteTask(prev, call.q, call.taskId)
      [] call.op = "clearCompleted" -> clearCompleted(prev, call.q)
      [] call.op = "moveTask" ->
            moveTask(prev, call.from, call.to, call.taskId)

\* A setBoard given the next board, computed from the board of the render
\* the handler belongs to.
ValueUpdate(call) == [call |-> call, functional |-> FALSE]

\* setBoard((prev) => ...): the updater is given the state the updaters
\* before it have left.
FunctionalUpdate(call) == [call |-> call, functional |-> TRUE]

\* React's processing of the queue of a render: each update in call order,
\* a function on the state so far, a value as it is.
RECURSIVE ApplyQueue(_, _, _)
ApplyQueue(r, rendered, us) ==
    IF us = <<>> THEN r
    ELSE LET u == Head(us)
             n == IF u.functional THEN Apply(r.b, u.call)
                  ELSE Apply(rendered, u.call)
         IN  ApplyQueue([b |-> n.b, changed |-> r.changed \/ n.changed],
                        rendered, Tail(us))

Calls(us) == [i \in 1..Len(us) |-> us[i].call]

\* A mutation is called after hydration, while the save effect of the last
\* commit or the updaters of earlier calls may still wait.
Issue(call) ==
    /\ hydrated
    /\ ~showResetModal
    /\ queued = NoUpdates
    /\ effects \in {<<>>, <<"save">>}
    /\ Len(updaters) < MaxBatch
    /\ updaters' = Append(updaters, FunctionalUpdate(call))
    /\ last' = [op |-> "call"]
    /\ UNCHANGED <<board, hydrated, showResetModal, queued, effects,
                   totalsMemo, storage, storageThrows, now, otherTab, ended>>

\* The handlers, on the board the last render showed.
IssueSubmit(q, rnd) ==
    /\ Count(board) + Len(updaters) < MaxTasks
    /\ Issue([op |-> "addTask", q |-> q, title |-> <<"a">>,
              notes |-> Undefined, dueDate |-> Undefined, rnd |-> rnd,
              t |-> now])

IssueToggleDone(q, i) ==
    /\ i \in 1..Len(board[q])
    /\ Issue([op |-> "updateTask", q |-> q, taskId |-> board[q][i].id,
              patch |-> [done |-> ~board[q][i].done]])

IssueDelete(q, i) ==
    /\ i \in 1..Len(board[q])
    /\ Issue([op |-> "deleteTask", q |-> q, taskId |-> board[q][i].id])

IssueClearDone(q) ==
    /\ \E i \in 1..Len(board[q]) : board[q][i].done
    /\ Issue([op |-> "clearCompleted", q |-> q])

IssueSelectMove(q, i, to) ==
    /\ i \in 1..Len(board[q])
    /\ to # q
    /\ Issue([op |-> "moveTask", from |-> q, to |-> to,
              taskId |-> board[q][i].id])

\* The re-render the calls scheduled: the effects of the last commit have
\* run, the queue is processed, and the save effect runs again if the board
\* is a new object.
RenderUpdates ==
    /\ effects = <<>>
    /\ updaters # <<>>
    /\ Commit(ApplyQueue(Same(board), board, updaters),
              [op |-> "flush", calls |-> Calls(updaters)])
    /\ updaters' = <<>>
    /\ UNCHANGED <<hydrated, showResetModal, queued, storage, storageThrows,
                   now, otherTab, ended>>

NextBatch ==
    \/ HydrateEffect
    \/ SaveEffect
    \/ Render
    \/ \E q \in TabQuadrants, rnd \in RandVals : IssueSubmit(q, rnd)
    \/ \E q \in TabQuadrants, i \in 1..MaxTasks : IssueToggleDone(q, i)
    \/ \E q \in TabQuadrants, i \in 1..MaxTasks : IssueDelete(q, i)
    \/ \E q \in TabQuadrants : IssueClearDone(q)
    \/ \E q \in TabQuadrants, i \in 1..MaxTasks, to \in TabQuadrants :
          IssueSelectMove(q, i, to)
    \/ RenderUpdates

SpecBatch == Init /\ [][NextBatch]_vars

\* ------------------------------------------------------------------ claims
\* C1: no step taken while hydrated is still false writes the durable value:
\* nothing is saved before the first load attempt has completed.
NoSaveBeforeLoad == [][~hydrated => storage' = storage]_vars

\* The mount's save effect has run over a stored snapshot, before hydration.
NoSaveBeforeLoadWitness ==
    /\ last.op = "save:skipped"
    /\ ~hydrated
    /\ storage = Snapshot
    /\ queued.board # Null

\* C2: whenever the store is at rest after hydration and storage calls do
\* not throw, the durable value is the serialization of the board in memory.
SavedAtRest ==
    (AtRest /\ hydrated /\ ~storageThrows) => storage = Stringify(board)

\* At rest after a save, with two tasks on the board.
SavedAtRestWitness ==
    /\ AtRest
    /\ hydrated
    /\ last.op = "save"
    /\ Count(board) = 2

\* C3: once a reset and every persistence step it triggers have completed,
\* the durable store holds no value under the key.
ResetClearsStore == last.op = "save:reset" => storage = Absent

\* C4: each task id occurs at most once on the whole board.
UniqueIds ==
    \A p1, p2 \in AllTasks(board) :
        p1 # p2 => board[p1[1]][p1[2]].id # board[p2[1]][p2[2]].id

\* The store is as it was: the board, the pending effects, the durable value.
StoreUnchanged == UNCHANGED <<board, hydrated, queued, effects, storage>>

TitlesOk ==
    \A p \in AllTasks(board) :
        LET title == board[p[1]][p[2]].title
        IN  title # <<>> /\ Trim(title) = title

\* C5: every stored title is non-empty and is its own trimmed form, and an
\* add or an edit submitted with an empty or whitespace-only title leaves
\* the store as it was.
TitleInvariant ==
    /\ []TitlesOk
    /\ [][last'.op \in {"addTask:blank", "saveEdit:blank"} => StoreUnchanged
         ]_vars

\* A blank edit was rejected on a board holding a title that add trimmed.
TitleInvariantWitness ==
    /\ last.op = "saveEdit:blank"
    /\ \E p \in AllTasks(board) : board[p[1]][p[2]].title = <<"a">>

\* The tasks of seq whose id is not taskId, in their order.
RECURSIVE Others(_, _)
Others(seq, taskId) ==
    IF seq = <<>> THEN <<>>
    ELSE IF Head(seq).id = taskId THEN Others(Tail(seq), taskId)
    ELSE <<Head(seq)>> \o Others(Tail(seq), taskId)

MoveNoop ==
    [][last'.op \in {"moveTask:same", "moveTask:missing"} => StoreUnchanged
      ]_vars

\* A stale move was ignored and left two tasks where they were.
MoveNoopWitness ==
    /\ last.op = "moveTask:missing"
    /\ AtRest
    /\ Count(board) = 2

\* The tasks of quadrant q with id taskId got the fields of patch and kept
\* their other fields, and nothing else on the board changed.
Patched(q, taskId, patch) ==
    /\ Len(board'[q]) = Len(board[q])
    /\ \A j \in 1..Len(board[q]) :
          LET old == board[q][j]
              new == board'[q][j]
          IN  IF old.id = taskId
              THEN /\ DOMAIN new = DOMAIN old \cup DOMAIN patch
                   /\ \A k \in DOMAIN patch : new[k] = patch[k]
                   /\ \A k \in DOMAIN old \ DOMAIN patch : new[k] = old[k]
              ELSE new = old
    /\ \A r \in QuadrantKey \ {q} : board'[r] = board[r]

AllIdsOn(b) == UNION {Ids(b[q]) : q \in QuadrantKey}

\* C9: an addTask with a title that is not blank puts one new task in front
\* of quadrant q, with the trimmed title, done = false and an id that was
\* nowhere on the board, and leaves the three other quadrants alone.
AddEffect ==
    [][last'.op = "addTask" =>
         LET q == last'.q
         IN  /\ board'[q] # <<>>
             /\ Tail(board'[q]) = board[q]
             /\ Head(board'[q]).title = Trim(last'.title)
             /\ Head(board'[q]).done = FALSE
             /\ Head(board'[q]).id \notin AllIdsOn(board)
             /\ \A r \in QuadrantKey \ {q} : board'[r] = board[r]
      ]_vars

\* C10: an addTask with an empty or whitespace-only title leaves the board
\* and its totals as they were, and schedules no save.
AddBlankNoop ==
    [][last'.op = "addTask:blank" =>
         /\ board' = board
         /\ totals(board') = totals(board)
         /\ totalsMemo' = totalsMemo
         /\ \A r \in QuadrantKey : Len(board'[r]) = Len(board[r])
         /\ UNCHANGED <<effects, storage>>
      ]_vars

\* A blank add was ignored on a board that holds one task, a done one.
AddBlankNoopWitness ==
    /\ last.op = "addTask:blank"
    /\ totals(board) = [all |-> 1, done |-> 1]

\* The tasks of seq that are not done, in their order.
RECURSIVE Undone(_)
Undone(seq) ==
    IF seq = <<>> THEN <<>>
    ELSE IF Head(seq).done THEN Undone(Tail(seq))
    ELSE <<Head(seq)>> \o Undone(Tail(seq))

\* C11: clearCompleted(q) leaves in quadrant q exactly its tasks that were
\* not done, in their previous order, and leaves the three other quadrants
\* as they were.
ClearScope ==
    [][last'.op = "clearCompleted" =>
         LET q == last'.q
         IN  /\ board'[q] = Undone(board[q])
             /\ \A r \in QuadrantKey \ {q} : board'[r] = board[r]
      ]_vars

\* The done task between two others was cleared: the two others remain,
\* in their order.
ClearScopeWitness ==
    /\ last.op = "clearCompleted"
    /\ Len(board[last.q]) = 2
    /\ board[last.q][1].title = <<"a">>
    /\ board[last.q][2].title = <<"c">>
    /\ ~board[last.q][1].done /\ ~board[last.q][2].done

\* t[k] as JS reads it: undefined when t has no key k.
Get(t, k) == IF k \in DOMAIN t THEN t[k] ELSE Undefined

\* Deep equality of two tasks, a key holding undefined counting as no key.
TaskEqual(t, u) ==
    \A k \in DOMAIN t \cup DOMAIN u :
        IF k \in OptionalKeys THEN Get(t, k) = Get(u, k)
        ELSE k \in DOMAIN t /\ k \in DOMAIN u /\ t[k] = u[k]

DeepEqual(b, c) ==
    \A q \in QuadrantKey :
        /\ Len(b[q]) = Len(c[q])
        /\ \A i \in 1..Len(b[q]) : TaskEqual(b[q][i], c[q][i])

\* C12: loadState() after saveState(b) returns a board deep-equal to b, for
\* every valid board b.
RoundTrip ==
    last.op = "hydrate" =>
        /\ storage = Stringify(board)
        /\ queued.board # Null
        /\ DeepEqual(queued.board, board)

\* A board with empty quadrants and two tasks, one with notes and a due
\* date, one with both undefined, came back.
RoundTripWitness ==
    /\ last.op = "hydrate"
    /\ queued.board # Null
    /\ \E q \in QuadrantKey :
          /\ Len(board[q]) = 2
          /\ Get(board[q][1], "notes") = Undefined
          /\ Get(board[q][1], "dueDate") = Undefined
          /\ "notes" \in DOMAIN board[q][1]
          /\ Get(board[q][2], "notes") = <<"n">>
          /\ Get(board[q][2], "dueDate") = <<"2025-01-01">>
          /\ Len(queued.board[q]) = 2

\* C13: loadState returns null when the key holds no value, a value that is
\* not valid JSON, or a parsed value lacking a quadrant key, and the session
\* then goes on from the empty board.
CorruptLoad ==
    /\ last.op = "hydrate" /\ storage \in Corrupt => queued.board = Null
    /\ last.op = "render" /\ storage \in Corrupt =>
          board = emptyBoard /\ hydrated /\ effects = <<"save">>

\* The session is on the empty board after the load of a stored board that
\* lacks one key.
CorruptLoadWitness ==
    /\ last.op = "render"
    /\ board = emptyBoard
    /\ hydrated
    /\ storage = Json([q \in QuadrantKey \ {"eliminate"} |->
                         Snapshot.value[q]])

\* Every task of the board after the step is a task of the board before it,
\* with its id and its createdAt.
SameIdentities ==
    \A p \in AllTasks(board') :
        \E o \in AllTasks(board) :
            /\ board'[p[1]][p[2]].id = board[o[1]][o[2]].id
            /\ board'[p[1]][p[2]].createdAt = board[o[1]][o[2]].createdAt

\* An update keeps the id and the createdAt of the task at each position.
SameIdentityInPlace ==
    \A q \in QuadrantKey :
        /\ Len(board'[q]) = Len(board[q])
        /\ \A i \in 1..Len(board[q]) :
              /\ board'[q][i].id = board[q][i].id
              /\ board'[q][i].createdAt = board[q][i].createdAt

\* C14: no update, move, clear or delete changes the id or the createdAt of
\* a task that stays on the board, and an add gives the new task an id that
\* no task has.
IdentityFields ==
    [][/\ last'.op = "updateTask" => SameIdentityInPlace
       /\ last'.op \in {"moveTask", "deleteTask", "clearCompleted"} =>
             SameIdentities
       /\ last'.op = "addTask" =>
             /\ Tail(board'[last'.q]) = board[last'.q]
             /\ Head(board'[last'.q]).id \notin AllIdsOn(board)
      ]_vars

\* C15: deleteTask(q, id) leaves in quadrant q its tasks of other ids, in
\* their order, and leaves the three other quadrants as they were; when no
\* task of q has the id, the board is as it was.
DeleteEffect ==
    [][last'.op = "deleteTask" =>
         LET q == last'.q
             taskId == last'.taskId
         IN  /\ board'[q] = Others(board[q], taskId)
             /\ \A r \in QuadrantKey \ {q} : board'[r] = board[r]
             /\ taskId \notin Ids(board[q]) => board' = board
      ]_vars

\* A delete named a quadrant that does not hold the id, while another
\* quadrant does: the task is still there.
DeleteEffectWitness ==
    /\ last.op = "deleteTask"
    /\ last.taskId \notin Ids(board[last.q])
    /\ \E r \in QuadrantKey \ {last.q} : last.taskId \in Ids(board[r])
    /\ Count(board) = 2

\* C16: after a reset, and after the save it triggers, each of the four
\* quadrants is the empty sequence and the totals are all = 0, done = 0.
ResetTotal ==
    last.op \in {"confirmReset", "save:reset"} =>
        /\ \A q \in QuadrantKey : board[q] = <<>>
        /\ totalsMemo = [all |-> 0, done |-> 0]

\* A reset in a session that had added a task at time 1.
ResetTotalWitness ==
    /\ last.op = "confirmReset"
    /\ now = 1
    /\ ~showResetModal
    /\ effects = <<"save">>
    /\ totalsMemo.all = 0

\* C17: when a write fails, the save effect and the reset leave the board
\* in memory as the mutation made it, the failure stops nothing (no effect
\* is left pending, the reset dialog closes), and the durable value stays
\* as it was.
WriteFailure ==
    [][storageThrows =>
         /\ storage' = storage
         /\ last'.op \in {"save", "save:reset"} =>
               /\ board' = board
               /\ hydrated' = hydrated
               /\ queued' = queued
               /\ effects' = <<>>
         /\ last'.op = "confirmReset" =>
               /\ board' = emptyBoard
               /\ showResetModal' = FALSE
               /\ effects' = <<"save">>
      ]_vars

\* A task was added in front of the stored one and the stored one was
\* edited, each save failing: the store is at rest and the durable value is
\* still the snapshot.
WriteFailureWitness ==
    /\ storageThrows
    /\ last.op = "save"
    /\ AtRest
    /\ hydrated
    /\ storage = Snapshot
    /\ Len(board["schedule"]) = 2
    /\ board["schedule"][1].createdAt = 1
    /\ board["schedule"][2].title = <<"a">>

\* The number of done tasks of seq.
RECURSIVE DoneIn(_)
DoneIn(seq) ==
    IF seq = <<>> THEN 0
    ELSE (IF Head(seq).done THEN 1 ELSE 0) + DoneIn(Tail(seq))

\* C18: in every state the totals shown are those of the current board:
\* all is the sum of the lengths of the four quadrants, done the number of
\* done tasks on the whole board.
TotalsFresh ==
    /\ totalsMemo.all = Len(board["do"]) + Len(board["schedule"])
                        + Len(board["delegate"]) + Len(board["eliminate"])
    /\ totalsMemo.done = DoneIn(board["do"]) + DoneIn(board["schedule"])
                         + DoneIn(board["delegate"])
                         + DoneIn(board["eliminate"])

\* A task was just marked done while a task of another quadrant is not.
TotalsFreshWitness ==
    /\ last.op = "updateTask"
    /\ "done" \in DOMAIN last.patch
    /\ last.patch.done
    /\ totalsMemo = [all |-> 2, done |-> 1]
    /\ \E q \in QuadrantKey \ {last.q} : Len(board[q]) = 1

\* b has the four quadrant keys, each holding an array.
Shaped(b) == DOMAIN b = QuadrantKey /\ \A q \in QuadrantKey : IsArray(b[q])

\* C19: the board in memory, and the board the hydration effect hands to
\* setBoard, have the four quadrant keys, each mapping to a sequence.
BoardShape ==
    /\ Shaped(board)
    /\ queued.board # Null => Shaped(queued.board)

\* C20: when the key holds a saved board at the mount, no step before the
\* first event changes the durable value, and from the re-render after the
\* load on the board in memory is that board.
SnapshotSurvives ==
    /\ [](storage \in Saved /\ last.op \in {"render", "save"} =>
            /\ board = storage.value
            /\ DeepEqual(board, storage.value))
    /\ [][(storage \in Saved) => storage' = storage]_vars

\* The session has loaded the three stored tasks and its save effect has
\* run: the key still holds them.
SnapshotSurvivesWitness ==
    /\ last.op = "save"
    /\ hydrated
    /\ storage = Stored
    /\ Len(board["do"]) = 3

\* The ids of the tasks of seq, in their order.
IdSeq(seq) == [i \in 1..Len(seq) |-> seq[i].id]

\* s can be had from t by leaving elements out.
RECURSIVE IsSubseq(_, _)
IsSubseq(s, t) ==
    IF s = <<>> THEN TRUE
    ELSE IF t = <<>> THEN FALSE
    ELSE IF Head(s) = Head(t) THEN IsSubseq(Tail(s), Tail(t))
    ELSE IsSubseq(s, Tail(t))

\* C21: a mutation leaves the tasks that remain in a quadrant in their
\* relative order: an update keeps every quadrant's order as it is, a
\* delete, a clear and a move leave what remains in order, and the only
\* task that takes a new position is the added or moved-in one, which
\* becomes the first of its quadrant.
OrderKept ==
    [][last'.op \in {"addTask", "updateTask", "deleteTask", "clearCompleted",
                     "moveTask"} =>
         \A q \in QuadrantKey :
             LET before == IdSeq(board[q])
                 after == IdSeq(board'[q])
             IN  IF last'.op = "addTask" /\ q = last'.q
                 THEN after # <<>> /\ Tail(after) = before
                 ELSE IF last'.op = "moveTask" /\ q = last'.to
                 THEN /\ after # <<>>
                      /\ Head(after) = last'.taskId
                      /\ Tail(after) = before
                 ELSE IF last'.op = "updateTask"
                 THEN after = before
                 ELSE IsSubseq(after, before)
      ]_vars

\* The middle one of three tasks was moved away: the two others are still
\* in their order, and the moved one is first where it went.
OrderKeptWitness ==
    /\ last.op = "moveTask"
    /\ Len(board[last.from]) = 2
    /\ board[last.from][1].title = <<"a">>
    /\ board[last.from][2].title = <<"c">>
    /\ board[last.to][1].id = last.taskId

\* C22: each save overwrites the whole durable value with the board of the
\* tab that saves; a step of one tab changes nothing in the other; and when
\* both tabs are hydrated and at rest, the durable value is the board of
\* one of them, whole.
LastWriterWins ==
    /\ [](AtRest /\ TabAtRest /\ hydrated /\ otherTab.hydrated =>
            storage \in {Stringify(board), Stringify(otherTab.board)})
    /\ [][/\ last'.op = "save" => storage' = Stringify(board)
          /\ last'.op = "other:save" => storage' = Stringify(otherTab.board)
          /\ last'.op \in {"other:hydrate", "other:save:skipped",
                           "other:save", "other:render", "other:addTask",
                           "other:deleteTask"} => board' = board
          /\ last'.op \in {"hydrate", "save:skipped", "save", "render",
                           "addTask", "deleteTask"} =>
                otherTab'.board = otherTab.board
         ]_vars

\* The other tab saved last: the key holds its board, and the task this tab
\* added and saved is not in it.
LastWriterWinsWitness ==
    /\ last.op = "other:save"
    /\ AtRest /\ hydrated
    /\ TabAtRest /\ otherTab.hydrated
    /\ storage = Stringify(otherTab.board)
    /\ Count(board) = 1
    /\ Count(otherTab.board) = 1
    /\ AllIdsOn(board) = {uid("r1", 0)}
    /\ AllIdsOn(otherTab.board) = {uid("r2", 0)}

\* C23: a session that follows one closed at rest, hydrated, with every
\* write succeeded, starts (after its hydration is rendered, and still when
\* its save effect has run) with a board deep-equal to the board the closed
\* session ended with: the same ids in the same quadrants, and four empty
\* quadrants if that board was empty.  Until then it shows the empty board.
RestartFidelity ==
    /\ ended # Null /\ last.op \in {"restart", "hydrate", "save:skipped"} =>
          /\ board = emptyBoard
          /\ ~hydrated
          /\ storage = Stringify(ended)
    /\ ended # Null /\ last.op \in {"render", "save"} =>
          /\ hydrated
          /\ DeepEqual(board, ended)
          /\ \A q \in QuadrantKey : IdSeq(board[q]) = IdSeq(ended[q])
          /\ ended = emptyBoard => board = emptyBoard
          /\ storage = Stringify(ended)

\* The first session found a stored task and deleted it, added another and
\* was closed; the second session has rendered the board it loaded, which
\* holds the added task and not the deleted one.
RestartFidelityWitness ==
    /\ ended # Null
    /\ last.op = "render"
    /\ hydrated
    /\ Count(board) = 1
    /\ uid("r1", -1) \notin AllIdsOn(board)
    /\ Len(board["do"]) = 1
    /\ "notes" \notin DOMAIN board["do"][1]
    /\ ended["do"][1].notes = Undefined

\* The board after the calls, made one at a time in their order, each on
\* the board the one before it left.
RECURSIVE OneAtATime(_, _)
OneAtATime(b, calls) ==
    IF calls = <<>> THEN b
    ELSE OneAtATime(Apply(b, Head(calls)).b, Tail(calls))

\* C24: a call made after hydration joins the waiting ones, behind them, and
\* changes nothing else; a save effect that runs meanwhile drops none of
\* them; the render that follows leaves the board that the waiting calls
\* give when made one at a time in call order, and none waits any longer;
\* and once nothing is pending the durable value is that board.
NoLostMutation ==
    /\ [](AtRest /\ hydrated /\ updaters = <<>> =>
            storage = Stringify(board))
    /\ [][/\ last'.op = "call" =>
                /\ Len(updaters') = Len(updaters) + 1
                /\ SubSeq(updaters', 1, Len(updaters)) = updaters
                /\ board' = board
          /\ last'.op \in {"save", "save:skipped"} =>
                updaters' = updaters /\ board' = board
          /\ last'.op = "flush" =>
                /\ last'.calls = Calls(updaters)
                /\ board' = OneAtATime(board, last'.calls)
                /\ updaters' = <<>>
                /\ board' # board => effects' = <<"save">>
         ]_vars

\* One render has applied an add and then the delete of the stored task,
\* both called before it: the board holds the added task alone.
NoLostMutationWitness ==
    /\ last.op = "flush"
    /\ Len(last.calls) = 2
    /\ last.calls[1].op = "addTask"
    /\ last.calls[2].op = "deleteTask"
    /\ last.calls[2].taskId = uid("r1", -1)
    /\ AllIdsOn(board) = {uid("r2", 0)}
    /\ effects = <<"save">>
====
